---- MODULE Spec2Model ----
(***************************************************************************)
(* A model of rosbag_to_csv.py: the field flattener (_gen_msg_values),     *)
(* the topic dump engine (dump_bag), the bag locator (is_rosbag_dir,       *)
(* find_rosbags) and the directory orchestrator (main,                     *)
(* process_structured_bags, process_single_bag).                           *)
(*                                                                         *)
(* Text is modelled as a sequence of tokens.  A token is a string that is  *)
(* either one separator character (",", ".", "/", "_") or a chunk of text  *)
(* that holds no separator, so that prefix tests, strip, replace and join  *)
(* act on the separators as the Python string methods do.                  *)
(***************************************************************************)
EXTENDS Integers, Sequences, FiniteSets, TLC

VARIABLES
  \* the flattener: the value drawn, the pairs yielded, the position
  fval, fout, fpc,
  \* one dump pass (dump_bag): its position, its locals, the files it has
  \* opened and what it wrote through each handle
  dpc, file_map, start_time, msg_count, result,
  open_files, disk, out, progress,
  \* the reader: messages read so far, the topics read, the topic last read,
  \* and the topic and resolved timestamp of each message that reached
  \* line 117, in order
  reads, seen, last_topic, processed,
  \* the file system below the input path: what the input path is, the
  \* directories (paths relative to the input path, <<>> the input path
  \* itself), those holding metadata.yaml, those holding a *.db3 file
  input_kind, dirs, meta, db3,
  \* a run of main: its position, the branch it took, os.walk's pending
  \* directories, the walk's root, the list rosbags and whether
  \* find_rosbags has returned it, the loop index, the dump_bag calls made
  \* and the exit status
  mpc, mode, stack, walk_root, rosbags, found, idx, calls, exit_status

flatVars == <<fval, fout, fpc>>
dumpVars == <<dpc, file_map, start_time, msg_count, result,
              open_files, disk, out, progress,
              reads, seen, last_topic, processed>>
fsVars == <<input_kind, dirs, meta, db3>>
mainVars == <<mpc, mode, stack, walk_root, rosbags, found, idx, calls, exit_status>>
vars == <<flatVars, dumpVars, fsVars, mainVars>>

(***************************************************************************)
(* The values the variables of a component hold while it is not running.   *)
(***************************************************************************)
FlatIdle == fval = [tag |-> "int", num |-> 0] /\ fout = <<>> /\ fpc = "idle"

DumpIdle ==
  /\ dpc = "idle" /\ file_map = <<>> /\ start_time = [none |-> TRUE] /\ msg_count = 0
  /\ result = -1 /\ open_files = {} /\ disk = {} /\ out = <<>> /\ progress = 0
  /\ reads = 0 /\ seen = {} /\ last_topic = <<>> /\ processed = <<>>

MainIdle ==
  /\ input_kind = "dir" /\ dirs = {<<>>} /\ meta = {} /\ db3 = {}
  /\ mpc = "idle" /\ mode = 0 /\ stack = <<>> /\ walk_root = <<>>
  /\ rosbags = <<>> /\ found = FALSE /\ idx = 1 /\ calls = <<>>
  /\ exit_status = -1

(***************************************************************************)
(* Bounds of the model.                                                    *)
(***************************************************************************)
MaxLen == 2
MaxDepth == 2
MaxMsgs == 3
MaxDirs == 3

(***************************************************************************)
(* Sequence helpers.                                                       *)
(***************************************************************************)
RECURSIVE FlatCat(_)
FlatCat(ss) == IF ss = <<>> THEN <<>> ELSE Head(ss) \o FlatCat(Tail(ss))

Copies(c, n) == [i \in 1..n |-> c]

(***************************************************************************)
(* Decoded values.  A scalar is a number, a boolean or a string; a list    *)
(* is a Python list; an array is the non-list iterable (array.array) that  *)
(* holds the elements of a primitive sequence<> field; a msg exposes       *)
(* get_fields_and_field_types: its fields in declared order, each with     *)
(* its type string and its value.                                          *)
(***************************************************************************)
SInt(n) == [tag |-> "int", num |-> n]
SBool(b) == [tag |-> "bool", bit |-> b]
SStr(t) == [tag |-> "str", text |-> t]
VList(es) == [tag |-> "list", elems |-> es]
VArray(es) == [tag |-> "array", elems |-> es]
VMsg(fs) == [tag |-> "msg", fields |-> fs]
Field(n, t, v) == [name |-> n, type |-> t, val |-> v]

PlainType == <<"double">>
SeqType == <<"sequence<", "double", ">">>

\* str.startswith for a prefix that is the token sequence pre
StartsWith(s, pre) == Len(s) >= Len(pre) /\ SubSeq(s, 1, Len(pre)) = pre

\* f"[{i}]"
IndexTok(i) == "[" \o ToString(i) \o "]"

\* line 54: full_field_name = f"{prefix}.{field}" if prefix else field
FullFieldNameNoJoin(prefix, field) == prefix \o <<field>>
FullFieldName(prefix, field) ==
  IF prefix # <<>> THEN prefix \o <<".", field>> ELSE <<field>>

\* lines 49-50 and 56-57: enumerate(...) counts from 0
EnumIndex(i) == i - 1

\* line 55: field_type.startswith("sequence<")
IsSequenceType(type) == StartsWith(type, <<"sequence<">>)

RECURSIVE _gen_msg_values(_, _)
_gen_msg_values(msg, prefix) ==
  IF msg.tag = "list"
  THEN FlatCat([i \in 1..Len(msg.elems) |->
         _gen_msg_values(msg.elems[i], prefix \o <<IndexTok(EnumIndex(i))>>)])
  ELSE IF msg.tag = "msg"
  THEN FlatCat([k \in 1..Len(msg.fields) |->
         LET f == msg.fields[k]
             full_field_name == FullFieldName(prefix, f.name)
         IN IF IsSequenceType(f.type)
            THEN FlatCat([i \in 1..Len(f.val.elems) |->
                   _gen_msg_values(f.val.elems[i],
                                   full_field_name \o <<IndexTok(EnumIndex(i))>>)])
            ELSE _gen_msg_values(f.val, full_field_name)])
  ELSE <<[path |-> prefix, val |-> msg]>>

(***************************************************************************)
(* The decoded values the flattener is checked on: every value of nesting  *)
(* depth at most MaxDepth built from two scalars, lists and sequence       *)
(* fields of at most MaxLen equal elements, and messages of one or two     *)
(* fields a, b.                                                            *)
(***************************************************************************)
FlatScalars == {SInt(1), SStr(<<"s">>)}

RECURSIVE FlatValues(_)
FlatValues(d) ==
  IF d = 0 THEN FlatScalars
  ELSE LET C == FlatValues(d - 1)
       IN C
          \cup {VList(Copies(c, n)) : c \in C, n \in 0..MaxLen}
          \cup {VMsg(<<>>)}
          \cup {VMsg(<<Field("a", PlainType, c)>>) : c \in C}
          \cup {VMsg(<<Field("a", SeqType, VList(Copies(c, n)))>>) :
                  c \in C, n \in 0..MaxLen}
          \cup {VMsg(<<Field("a", SeqType, VArray(Copies(s, n))),
                       Field("b", PlainType, c)>>) :
                  s \in FlatScalars, c \in C, n \in 0..MaxLen}
          \cup {VMsg(<<Field("a", PlainType, c), Field("b", PlainType, s)>>) :
                  c \in C, s \in FlatScalars}
          \cup {VMsg(<<Field("a", PlainType, c), Field("b", PlainType, c)>>) :
                  c \in C}

(***************************************************************************)
(* The topic dump engine: dump_bag, lines 64-133.                          *)
(***************************************************************************)
\* line 85
SKIP_TOPICS == {<<"/", "rosout">>, <<"/", "parameter", "_", "events">>}

\* line 113: the factor 1e-9, as the number of nanoseconds in a second
NanoPerSec == 1000000000

\* start_time = None, line 82
None == [none |-> TRUE]

\* A time is s + n * 1e-9 with 0 <= n < NanoPerSec, kept exact.
\* line 115: time_sec = timestamp
BagTime(timestamp) == [s |-> timestamp, n |-> 0]
\* line 113: time_sec = msg.header.stamp.sec + 1e-9 * msg.header.stamp.nanosec
StampTime(stamp) == [s |-> stamp.sec, n |-> stamp.nanosec]
\* line 120: relative_time = time_sec - start_time
TimeSub(a, b) ==
  IF a.n - b.n < 0
  THEN [s |-> a.s - b.s - 1, n |-> a.n - b.n + NanoPerSec]
  ELSE [s |-> a.s - b.s, n |-> a.n - b.n]

\* str() of a float: one chunk of text without a comma
StrTime(t) == <<ToString(t.s) \o "." \o ToString(t.n)>>

\* str(val) of a scalar, line 121
Str(val) ==
  CASE val.tag = "int" -> <<ToString(val.num)>>
    [] val.tag = "bool" -> <<IF val.bit THEN "True" ELSE "False">>
    [] val.tag = "str" -> val.text
    [] OTHER -> <<"<object>">>

\* sep.join(parts), each part a token sequence
RECURSIVE Join(_, _)
Join(sep, parts) ==
  IF parts = <<>> THEN <<>>
  ELSE IF Len(parts) = 1 THEN parts[1]
  ELSE parts[1] \o <<sep>> \o Join(sep, Tail(parts))

\* str.lstrip('/')
RECURSIVE LStrip(_)
LStrip(s) == IF s # <<>> /\ Head(s) = "/" THEN LStrip(Tail(s)) ELSE s

\* str.replace('/', '_')
Replace(s) == [i \in 1..Len(s) |-> IF s[i] = "/" THEN "_" ELSE s[i]]

\* line 101
CsvFilename(output_path, topic) ==
  output_path \o <<"/">> \o Replace(LStrip(topic)) \o <<".", "csv">>

\* the directory the pass writes into
OutputPath == <<"out">>

\* getattr(obj, name): the value of the field, when obj is a message with it
HasAttr(obj, name) ==
  obj.tag = "msg" /\ \E k \in 1..Len(obj.fields) : obj.fields[k].name = name
GetAttr(obj, name) ==
  (CHOOSE f \in {obj.fields[k] : k \in 1..Len(obj.fields)} : f.name = name).val

\* line 113 evaluates without an AttributeError or TypeError
StampReadable(msg) ==
  /\ HasAttr(GetAttr(msg, "header"), "stamp")
  /\ LET stamp == GetAttr(GetAttr(msg, "header"), "stamp")
     IN /\ HasAttr(stamp, "sec") /\ GetAttr(stamp, "sec").tag = "int"
        /\ HasAttr(stamp, "nanosec") /\ GetAttr(stamp, "nanosec").tag = "int"

\* lines 112-115
TimeSec(msg, timestamp) ==
  IF HasAttr(msg, "header")
  THEN LET stamp == GetAttr(GetAttr(msg, "header"), "stamp")
       IN StampTime([sec |-> GetAttr(stamp, "sec").num,
                     nanosec |-> GetAttr(stamp, "nanosec").num])
  ELSE BagTime(timestamp)

\* lines 104-105 and 121-122: the pairs whose path does not start "header."
NotHeader(path) == ~StartsWith(path, <<"header", ".">>)
KeptPairs(msg) == SelectSeq(_gen_msg_values(msg, <<>>), LAMBDA p : NotHeader(p.path))
Fields(msg) == [i \in 1..Len(KeptPairs(msg)) |-> KeptPairs(msg)[i].path]
Values(msg) == [i \in 1..Len(KeptPairs(msg)) |-> Str(KeptPairs(msg)[i].val)]

\* line 106: "time," + ",".join(fields)
HeaderLine(msg) == <<"time", ",">> \o Join(",", Fields(msg))
\* line 123: ",".join([str(relative_time)] + values)
RowLine(relative_time, msg) == Join(",", <<StrTime(relative_time)>> \o Values(msg))

\* lines 117-118
NewStartTimeAlways(time_sec) == time_sec
NewStartTime(time_sec) == IF start_time = None THEN time_sec ELSE start_time

\* line 93
IsSkippedNever(topic) == FALSE
IsSkipped(topic) == topic \in SKIP_TOPICS

\* line 125: msg_count % 1000 == 0
ProgressEvery == 1000
ProgressDue == msg_count % ProgressEvery = 0

\* lines 71-88: the state before the first has_next()
InitDump ==
  /\ dpc = "running" /\ file_map = <<>> /\ start_time = None /\ msg_count = 0
  /\ result = -1 /\ open_files = {} /\ disk = {} /\ out = <<>> /\ progress = 0
  /\ reads = 0 /\ seen = {} /\ last_topic = <<>> /\ processed = <<>>
  /\ FlatIdle
  /\ MainIdle

\* lines 91: read_next() hands over one message
Read(m) ==
  /\ reads' = reads + 1
  /\ seen' = seen \cup {m.topic}
  /\ last_topic' = m.topic

\* lines 100-107, for a topic that has no file yet
HeaderRow(msg) == [kind |-> "header", line |-> HeaderLine(msg), paths |-> Fields(msg)]
DataRow(msg, time_sec, relative_time) ==
  [kind |-> "row", line |-> RowLine(relative_time, msg), paths |-> Fields(msg),
   time_sec |-> time_sec]

\* the topic's handle and what has been written through it, after lines 100-109
FileMapAfterOpen(m) ==
  IF m.topic \in DOMAIN file_map THEN file_map
  ELSE (m.topic :> CsvFilename(OutputPath, m.topic)) @@ file_map
OutAfterOpen(m) ==
  IF m.topic \in DOMAIN file_map THEN out
  ELSE (m.topic :> <<HeaderRow(m.msg)>>) @@ out

\* lines 93-94: continue
ReadSkippedCounted(m) ==
  /\ dpc = "running"
  /\ IsSkipped(m.topic)
  /\ Read(m)
  /\ msg_count' = msg_count + 1
  /\ progress' = IF ProgressDue THEN progress + 1 ELSE progress
  /\ UNCHANGED <<dpc, file_map, start_time, result,
                 open_files, disk, out, processed>>

ReadSkipped(m) ==
  /\ dpc = "running"
  /\ IsSkipped(m.topic)
  /\ Read(m)
  /\ UNCHANGED <<dpc, file_map, start_time, msg_count, result,
                 open_files, disk, out, progress, processed>>

\* lines 96-97: get_message or deserialize_message raises
DecodeFails(m) ==
  /\ dpc = "running"
  /\ ~IsSkipped(m.topic)
  /\ Read(m)
  /\ dpc' = "aborted"
  /\ UNCHANGED <<file_map, start_time, msg_count, result,
                 open_files, disk, out, progress, processed>>

\* lines 100-113: the message has a header without stamp.sec / stamp.nanosec;
\* the topic's file is open and its header row written when line 113 raises
StampMissing(m) ==
  /\ dpc = "running"
  /\ ~IsSkipped(m.topic)
  /\ HasAttr(m.msg, "header") /\ ~StampReadable(m.msg)
  /\ Read(m)
  /\ file_map' = FileMapAfterOpen(m)
  /\ out' = OutAfterOpen(m)
  /\ open_files' = open_files \cup {m.topic}
  /\ disk' = disk \cup {CsvFilename(OutputPath, m.topic)}
  /\ dpc' = "aborted"
  /\ UNCHANGED <<start_time, msg_count, result, progress, processed>>

\* lines 100-123: print(..., file=file) of the row raises (disk full, ...)
WriteFails(m) ==
  /\ dpc = "running"
  /\ ~IsSkipped(m.topic)
  /\ HasAttr(m.msg, "header") => StampReadable(m.msg)
  /\ Read(m)
  /\ file_map' = FileMapAfterOpen(m)
  /\ out' = OutAfterOpen(m)
  /\ open_files' = open_files \cup {m.topic}
  /\ disk' = disk \cup {CsvFilename(OutputPath, m.topic)}
  /\ start_time' = NewStartTime(TimeSec(m.msg, m.timestamp))
  /\ processed' = Append(processed, [topic |-> m.topic, time_sec |-> TimeSec(m.msg, m.timestamp)])
  /\ dpc' = "aborted"
  /\ UNCHANGED <<msg_count, result, progress>>

\* lines 96-127: the message is written as a row of its topic's file
WriteRow(m) ==
  /\ dpc = "running"
  /\ ~IsSkipped(m.topic)
  /\ HasAttr(m.msg, "header") => StampReadable(m.msg)
  /\ Read(m)
  /\ file_map' = FileMapAfterOpen(m)
  /\ open_files' = open_files \cup {m.topic}
  /\ disk' = disk \cup {CsvFilename(OutputPath, m.topic)}
  /\ LET time_sec == TimeSec(m.msg, m.timestamp)
         relative_time == TimeSub(time_sec, NewStartTime(time_sec))
     IN /\ start_time' = NewStartTime(time_sec)
        /\ processed' = Append(processed, [topic |-> m.topic, time_sec |-> time_sec])
        /\ out' = [OutAfterOpen(m) EXCEPT
                     ![m.topic] = Append(@, DataRow(m.msg, time_sec, relative_time))]
  /\ progress' = IF ProgressDue THEN progress + 1 ELSE progress
  /\ msg_count' = msg_count + 1
  /\ UNCHANGED <<dpc, result>>

\* lines 129-133, when has_next() is false
CloseAll == open_files \ DOMAIN file_map

Finish ==
  /\ dpc = "running"
  /\ open_files' = CloseAll
  /\ result' = Cardinality(DOMAIN file_map)
  /\ dpc' = "done"
  /\ UNCHANGED <<file_map, start_time, msg_count, disk, out, progress,
                 reads, seen, last_topic, processed>>

(***************************************************************************)
(* The messages a bag may hold.                                            *)
(***************************************************************************)
Stamp(sec, nanosec) ==
  VMsg(<<Field("sec", PlainType, SInt(sec)), Field("nanosec", PlainType, SInt(nanosec))>>)
Header(sec, nanosec) ==
  VMsg(<<Field("stamp", PlainType, Stamp(sec, nanosec)),
         Field("frame_id", PlainType, SStr(<<"map">>))>>)

MsgPlain == VMsg(<<Field("x", PlainType, SInt(1)), Field("y", PlainType, SStr(<<"k">>))>>)
MsgComma == VMsg(<<Field("x", PlainType, SInt(1)), Field("y", PlainType, SStr(<<"a", ",", "b">>))>>)
MsgStamped == VMsg(<<Field("header", PlainType, Header(2, 500)), Field("x", PlainType, SInt(2))>>)
MsgBadHeader == VMsg(<<Field("header", PlainType, SInt(3)), Field("x", PlainType, SInt(1))>>)
MsgNoPoints == VMsg(<<Field("pts", SeqType, VArray(<<>>))>>)
MsgOnePoint == VMsg(<<Field("pts", SeqType, VArray(<<SInt(4)>>))>>)

DumpMsgs == {MsgComma, MsgStamped, MsgBadHeader, MsgNoPoints, MsgOnePoint}
DumpTopics == SKIP_TOPICS \cup {<<"/", "a", "/", "b">>, <<"/", "a", "_", "b">>}
DumpTimestamps == {4, 9}

DumpOffers == [topic : DumpTopics, msg : DumpMsgs, timestamp : DumpTimestamps]

\* has_next(), line 90, for a bag of at most n messages
HasNext(n) == reads < n

NextDump ==
  \/ HasNext(MaxMsgs) /\ (\E m \in DumpOffers : ReadSkipped(m)) /\ UNCHANGED <<flatVars, fsVars, mainVars>>
  \/ HasNext(MaxMsgs) /\ (\E m \in DumpOffers : DecodeFails(m)) /\ UNCHANGED <<flatVars, fsVars, mainVars>>
  \/ HasNext(MaxMsgs) /\ (\E m \in DumpOffers : StampMissing(m)) /\ UNCHANGED <<flatVars, fsVars, mainVars>>
  \/ HasNext(MaxMsgs) /\ (\E m \in DumpOffers : WriteFails(m)) /\ UNCHANGED <<flatVars, fsVars, mainVars>>
  \/ HasNext(MaxMsgs) /\ (\E m \in DumpOffers : WriteRow(m)) /\ UNCHANGED <<flatVars, fsVars, mainVars>>
  \/ Finish /\ UNCHANGED <<flatVars, fsVars, mainVars>>

Spec == InitDump /\ [][NextDump]_vars

(***************************************************************************)
(* A long bag: at most LongPrefix messages of any kind, then messages of   *)
(* one topic only, so that the message counter passes ProgressEvery.       *)
(***************************************************************************)
LongMsgs == 1003
LongPrefix == 2

LongOffers ==
  IF reads < LongPrefix
  THEN [topic : SKIP_TOPICS \cup {<<"/", "a", "/", "b">>},
        msg : {MsgPlain, MsgBadHeader}, timestamp : {4}]
  ELSE [topic : {<<"/", "a", "/", "b">>}, msg : {MsgPlain}, timestamp : {9}]

NextLong ==
  \/ HasNext(LongMsgs) /\ (\E m \in LongOffers : ReadSkipped(m)) /\ UNCHANGED <<flatVars, fsVars, mainVars>>
  \/ HasNext(LongMsgs) /\ (\E m \in LongOffers : DecodeFails(m)) /\ UNCHANGED <<flatVars, fsVars, mainVars>>
  \/ HasNext(LongMsgs) /\ (\E m \in LongOffers : StampMissing(m)) /\ UNCHANGED <<flatVars, fsVars, mainVars>>
  \/ HasNext(LongMsgs) /\ (\E m \in LongOffers : WriteFails(m)) /\ UNCHANGED <<flatVars, fsVars, mainVars>>
  \/ HasNext(LongMsgs) /\ (\E m \in LongOffers : WriteRow(m)) /\ UNCHANGED <<flatVars, fsVars, mainVars>>
  \/ Finish /\ UNCHANGED <<flatVars, fsVars, mainVars>>

SpecLong == InitDump /\ [][NextLong]_vars

(***************************************************************************)
(* The flattener as a specification: a value is drawn, then flattened.     *)
(***************************************************************************)
InitFlatten ==
  /\ fval \in FlatValues(MaxDepth)
  /\ fout = <<>>
  /\ fpc = "ready"
  /\ DumpIdle
  /\ MainIdle

Flatten ==
  /\ fpc = "ready"
  /\ fout' = _gen_msg_values(fval, <<>>)
  /\ fpc' = "done"
  /\ UNCHANGED <<fval, dumpVars, fsVars, mainVars>>

NextFlatten == Flatten

SpecFlatten == InitFlatten /\ [][NextFlatten]_vars

(***************************************************************************)
(* The bag locator and the directory orchestrator, lines 136-311.          *)
(***************************************************************************)
\* the names a directory entry may have, in code point order
NameOrder == <<"a", "b", "ros2bag">>
Names == {NameOrder[i] : i \in 1..Len(NameOrder)}
NameRank(n) == CHOOSE i \in 1..Len(NameOrder) : NameOrder[i] = n

IsPrefix(p, q) == Len(p) <= Len(q) /\ SubSeq(q, 1, Len(p)) = p
Prefixes(p) == {SubSeq(p, 1, k) : k \in 0..Len(p)}

\* lines 147-154
is_rosbag_dir(path) ==
  IF path \notin dirs THEN FALSE
  ELSE LET has_metadata == path \in meta
           has_db3 == path \in db3
       IN has_metadata /\ has_db3

\* the dirnames os.walk lists for dirpath
DirNames(dirpath) ==
  {p \in dirs : Len(p) = Len(dirpath) + 1 /\ IsPrefix(dirpath, p)}

\* the orders in which os.walk may list a set of directories
Orders(S) ==
  {o \in [1..Cardinality(S) -> S] : \A i, j \in 1..Cardinality(S) : i # j => o[i] # o[j]}

\* Path.__lt__: the parts compared as tuples of strings
RECURSIVE PathLess(_, _)
PathLess(p, q) ==
  IF q = <<>> THEN FALSE
  ELSE IF p = <<>> THEN TRUE
  ELSE IF Head(p) # Head(q) THEN NameRank(Head(p)) < NameRank(Head(q))
  ELSE PathLess(Tail(p), Tail(q))

\* line 176: sorted(rosbags)
SortedUnsorted(paths) == paths
Sorted(paths) ==
  CHOOSE o \in Orders({paths[i] : i \in 1..Len(paths)}) :
    \A i, j \in 1..Len(o) : i < j => PathLess(o[i], o[j])

\* line 189: Path(bag_path).relative_to(Path(root_path))
get_relative_structure(bag_path, root_path) ==
  SubSeq(bag_path, Len(root_path) + 1, Len(bag_path))

\* lines 211-212 and 296
Ros2bagDir == <<"ros2bag">>
CsvDir == <<"csv">>

\* lines 232-233 and 300-301: output_path = csv_dir / rel_path
MirroredNameOnly(bag_path) == CsvDir \o <<bag_path[Len(bag_path)]>>
Mirrored(bag_path) == CsvDir \o get_relative_structure(bag_path, walk_root)

\* line 285, lines 233-235 and 301-302: the output_path of the call
OutputPathOf(bag_path) == IF mode = 1 THEN bag_path ELSE Mirrored(bag_path)

\* the file systems a run may start on: at most MaxDirs directories below
\* the input path; some are bags, and the others hold no marker, or all
\* lack only metadata.yaml, or all lack only a *.db3 file
RECURSIVE TreesUpTo(_)
TreesUpTo(n) ==
  IF n = 0 THEN {{<<>>}}
  ELSE LET smaller == TreesUpTo(n - 1)
       IN smaller \cup
          UNION {{t \cup {Append(p, nm)} : p \in t, nm \in Names} : t \in smaller}

InitMain ==
  /\ input_kind \in {"missing", "file", "dir"}
  /\ IF input_kind = "dir"
     THEN /\ dirs \in TreesUpTo(MaxDirs)
          /\ \E bags \in SUBSET dirs, lacking \in {"none", "meta", "db3"} :
               /\ meta = IF lacking = "db3" THEN dirs ELSE bags
               /\ db3 = IF lacking = "meta" THEN dirs ELSE bags
     ELSE dirs = {} /\ meta = {} /\ db3 = {}
  /\ mpc = "start" /\ mode = 0 /\ stack = <<>> /\ walk_root = <<>>
  /\ rosbags = <<>> /\ found = FALSE /\ idx = 1 /\ calls = <<>>
  /\ exit_status = -1
  /\ FlatIdle
  /\ DumpIdle

\* lines 274-276
MainMissing ==
  /\ mpc = "start" /\ input_kind = "missing"
  /\ mpc' = "exit" /\ exit_status' = 1
  /\ UNCHANGED <<fsVars, mode, stack, walk_root, rosbags, found, idx, calls>>

\* lines 278-280
MainNotDir ==
  /\ mpc = "start" /\ input_kind = "file"
  /\ mpc' = "exit" /\ exit_status' = 1
  /\ UNCHANGED <<fsVars, mode, stack, walk_root, rosbags, found, idx, calls>>

\* lines 283-285: the input path is a bag
MainSingle ==
  /\ mpc = "start" /\ input_kind = "dir"
  /\ is_rosbag_dir(<<>>)
  /\ mode' = 1
  /\ rosbags' = << <<>> >>
  /\ mpc' = "loop"
  /\ UNCHANGED <<fsVars, stack, walk_root, found, idx, calls, exit_status>>

\* lines 286-288 and 210-222: the input path holds ros2bag; csv is made
\* and find_rosbags(ros2bag_dir) starts its walk (line 214 cannot fail here)
MainStructured ==
  /\ mpc = "start" /\ input_kind = "dir"
  /\ ~is_rosbag_dir(<<>>)
  /\ Ros2bagDir \in dirs
  /\ mode' = 2
  /\ dirs' = dirs \cup {CsvDir}
  /\ walk_root' = Ros2bagDir
  /\ stack' = <<Ros2bagDir>>
  /\ mpc' = "walk"
  /\ UNCHANGED <<input_kind, meta, db3, rosbags, found, idx, calls, exit_status>>

\* lines 286-288 and 210-219: csv_dir.mkdir raises (csv is a file, or the
\* input path is read-only); the exception ends the run with status 1
MainStructuredMkdirRaises ==
  /\ mpc = "start" /\ input_kind = "dir"
  /\ ~is_rosbag_dir(<<>>)
  /\ Ros2bagDir \in dirs
  /\ mode' = 2
  /\ mpc' = "raised" /\ exit_status' = 1
  /\ UNCHANGED <<fsVars, stack, walk_root, rosbags, found, idx, calls>>

\* lines 289-291: find_rosbags(input_path) starts its walk
MainSearchBeforeStructured ==
  /\ mpc = "start" /\ input_kind = "dir"
  /\ ~is_rosbag_dir(<<>>)
  /\ walk_root' = <<>>
  /\ stack' = << <<>> >>
  /\ mpc' = "walk"
  /\ UNCHANGED <<fsVars, mode, rosbags, found, idx, calls, exit_status>>

MainSearch ==
  /\ mpc = "start" /\ input_kind = "dir"
  /\ ~is_rosbag_dir(<<>>)
  /\ Ros2bagDir \notin dirs
  /\ walk_root' = <<>>
  /\ stack' = << <<>> >>
  /\ mpc' = "walk"
  /\ UNCHANGED <<fsVars, mode, rosbags, found, idx, calls, exit_status>>

\* lines 169-174: os.walk yields a bag; its dirnames are cleared
WalkBag ==
  /\ mpc = "walk" /\ stack # <<>>
  /\ is_rosbag_dir(Head(stack))
  /\ rosbags' = Append(rosbags, Head(stack))
  /\ stack' = Tail(stack)
  /\ UNCHANGED <<fsVars, mpc, mode, walk_root, found, idx, calls, exit_status>>

\* lines 169-171: os.walk yields a directory that is no bag and goes on
\* into its subdirectories, in the order the listing gave them
WalkDir ==
  /\ mpc = "walk" /\ stack # <<>>
  /\ ~is_rosbag_dir(Head(stack))
  /\ \E o \in Orders(DirNames(Head(stack))) : stack' = o \o Tail(stack)
  /\ UNCHANGED <<fsVars, mpc, mode, walk_root, rosbags, found, idx, calls, exit_status>>

\* line 176 with no bag found: lines 224-226, or lines 305-311
FindNone ==
  /\ mpc = "walk" /\ stack = <<>>
  /\ rosbags = <<>>
  /\ found' = TRUE
  /\ mode' = IF mode = 2 THEN 2 ELSE 4
  /\ mpc' = "exit" /\ exit_status' = 1
  /\ UNCHANGED <<fsVars, stack, walk_root, rosbags, idx, calls>>

\* line 176 with bags found: lines 228-230, or lines 292-299 (csv is made)
FindSome ==
  /\ mpc = "walk" /\ stack = <<>>
  /\ rosbags # <<>>
  /\ rosbags' = Sorted(rosbags)
  /\ found' = TRUE
  /\ mode' = IF mode = 2 THEN 2 ELSE 3
  /\ dirs' = dirs \cup {CsvDir}
  /\ mpc' = "loop"
  /\ UNCHANGED <<input_kind, meta, db3, stack, walk_root, idx, calls, exit_status>>

\* line 176 with bags found, lines 292-297: csv_dir.mkdir raises
FindSomeMkdirRaises ==
  /\ mpc = "walk" /\ stack = <<>>
  /\ rosbags # <<>>
  /\ mode # 2
  /\ rosbags' = Sorted(rosbags)
  /\ found' = TRUE
  /\ mode' = 3
  /\ mpc' = "raised" /\ exit_status' = 1
  /\ UNCHANGED <<fsVars, stack, walk_root, idx, calls>>

\* lines 199-201: dump_bag(bag_path, output_path) makes the output
\* directory with its parents (line 88) and returns
ProcessReturns ==
  /\ mpc = "loop" /\ idx <= Len(rosbags)
  /\ LET bag_path == rosbags[idx]
         output_path == OutputPathOf(bag_path)
     IN /\ calls' = Append(calls, [bag_path |-> bag_path, output_path |-> output_path])
        /\ dirs' = dirs \cup Prefixes(output_path)
  /\ idx' = idx + 1
  /\ UNCHANGED <<input_kind, meta, db3, mpc, mode, stack, walk_root, rosbags, found,
                 exit_status>>

\* lines 199-200: dump_bag raises; the exception ends the run with status 1
ProcessRaises ==
  /\ mpc = "loop" /\ idx <= Len(rosbags)
  /\ LET bag_path == rosbags[idx]
         output_path == OutputPathOf(bag_path)
     IN /\ calls' = Append(calls, [bag_path |-> bag_path, output_path |-> output_path])
        /\ \/ dirs' = dirs \cup Prefixes(output_path)
           \/ dirs' = dirs
  /\ mpc' = "raised" /\ exit_status' = 1
  /\ UNCHANGED <<input_kind, meta, db3, mode, stack, walk_root, rosbags, found, idx>>

\* line 237, line 304, or the return of line 285: the run ends with status 0
MainDone ==
  /\ mpc = "loop" /\ idx > Len(rosbags)
  /\ mpc' = "exit" /\ exit_status' = 0
  /\ UNCHANGED <<fsVars, mode, stack, walk_root, rosbags, found, idx, calls>>

NextMain ==
  \/ MainMissing /\ UNCHANGED <<flatVars, dumpVars>>
  \/ MainNotDir /\ UNCHANGED <<flatVars, dumpVars>>
  \/ MainSingle /\ UNCHANGED <<flatVars, dumpVars>>
  \/ MainStructured /\ UNCHANGED <<flatVars, dumpVars>>
  \/ MainStructuredMkdirRaises /\ UNCHANGED <<flatVars, dumpVars>>
  \/ MainSearch /\ UNCHANGED <<flatVars, dumpVars>>
  \/ WalkBag /\ UNCHANGED <<flatVars, dumpVars>>
  \/ WalkDir /\ UNCHANGED <<flatVars, dumpVars>>
  \/ FindNone /\ UNCHANGED <<flatVars, dumpVars>>
  \/ FindSome /\ UNCHANGED <<flatVars, dumpVars>>
  \/ FindSomeMkdirRaises /\ UNCHANGED <<flatVars, dumpVars>>
  \/ ProcessReturns /\ UNCHANGED <<flatVars, dumpVars>>
  \/ ProcessRaises /\ UNCHANGED <<flatVars, dumpVars>>
  \/ MainDone /\ UNCHANGED <<flatVars, dumpVars>>

SpecMain == InitMain /\ [][NextMain]_vars

(***************************************************************************)
(* Properties of the flattener.                                            *)
(***************************************************************************)
IsScalar(v) == v.tag \in {"int", "bool", "str"}

\* The scalar leaves of a value, each as the steps that lead to it: a field
\* name, or a position in a sequence.
FieldStep(name) == [kind |-> "field", name |-> name]
IndexStep(i) == [kind |-> "index", pos |-> i]

RECURSIVE LeafRoutes(_)
LeafRoutes(v) ==
  IF IsScalar(v) THEN << <<>> >>
  ELSE IF v.tag = "msg"
  THEN FlatCat([k \in 1..Len(v.fields) |->
         LET sub == LeafRoutes(v.fields[k].val)
         IN [j \in 1..Len(sub) |-> <<FieldStep(v.fields[k].name)>> \o sub[j]]])
  ELSE FlatCat([i \in 1..Len(v.elems) |->
         LET sub == LeafRoutes(v.elems[i])
         IN [j \in 1..Len(sub) |-> <<IndexStep(i - 1)>> \o sub[j]]])

RECURSIVE ValueAt(_, _)
ValueAt(v, route) ==
  IF route = <<>> THEN v
  ELSE IF Head(route).kind = "field"
  THEN ValueAt(GetAttr(v, Head(route).name), Tail(route))
  ELSE ValueAt(v.elems[Head(route).pos + 1], Tail(route))

\* The text of a route: names joined by ".", "[i]" for a position, and no
\* "." before the first step.
RouteText(route) ==
  FlatCat([j \in 1..Len(route) |->
    IF route[j].kind = "index" THEN <<"[" \o ToString(route[j].pos) \o "]">>
    ELSE IF j = 1 THEN <<route[j].name>>
    ELSE <<".", route[j].name>>])

Columns(line) == 1 + Cardinality({i \in 1..Len(line) : line[i] = ","})

\* the rows of a topic's file after its header row
RowsOf(t) == {out[t][k] : k \in 2..Len(out[t])}

\* C1: when every message of a topic flattens to the same non-"header."
\* paths as the topic's first message, every row of the topic's CSV has as
\* many columns as its header row: the time column plus one per path.
C1_RowsHaveHeaderColumns ==
  \A t \in DOMAIN out :
    (\A r \in RowsOf(t) : r.paths = out[t][1].paths) =>
      \A r \in RowsOf(t) :
        /\ Columns(r.line) = Columns(out[t][1].line)
        /\ Columns(out[t][1].line) = 1 + Len(out[t][1].paths)

\* C2: when the pass has ended, normally or by an error, every output file
\* it opened is closed.
C2_FilesClosedAtEnd ==
  dpc \in {"done", "aborted"} => open_files = {}

\* C3: start_time is recorded once, from the first message processed
\* whatever its topic; every row's first column is its resolved timestamp
\* minus that start_time, and the first message's row has relative time 0.
C3_OneSharedStartTime ==
  /\ (processed = <<>>) <=> (start_time = None)
  /\ processed # <<>> => start_time = processed[1].time_sec
  /\ \A t \in DOMAIN out : \A r \in RowsOf(t) :
       r.line[1] = StrTime(TimeSub(r.time_sec, processed[1].time_sec))[1]
  /\ msg_count >= 1 => out[processed[1].topic][2].line[1] = "0.0"

\* two topics have rows, with different resolved timestamps
C3_Witness ==
  \E t1, t2 \in DOMAIN out :
    /\ t1 # t2 /\ Len(out[t1]) >= 2 /\ Len(out[t2]) >= 2
    /\ out[t1][2].time_sec # out[t2][2].time_sec
    /\ out[t2][2].line[1] # "0.0"

\* C4: a topic of the skip set never gets an output file or a row, however
\* many of its messages are read, and dump's return value does not count it.
C4_SkippedTopicsNoOutput ==
  /\ \A t \in SKIP_TOPICS :
       /\ t \notin DOMAIN file_map
       /\ t \notin DOMAIN out
       /\ t \notin open_files
       /\ CsvFilename(OutputPath, t) \notin disk
  /\ dpc = "done" => result = Cardinality(seen \ SKIP_TOPICS)

\* both skipped topics were read in a pass that wrote one topic
C4_Witness ==
  dpc = "done" /\ SKIP_TOPICS \subseteq seen /\ result = 1 /\ reads >= 3

\* C5: one CSV file per non-skipped topic that had a message; two distinct
\* topics never write to the same file, so the number of files written
\* equals the count dump returns.
C5_OneFilePerTopic ==
  /\ \A t \in DOMAIN file_map : file_map[t] = CsvFilename(OutputPath, t)
  /\ \A t1, t2 \in DOMAIN file_map : t1 # t2 => file_map[t1] # file_map[t2]
  /\ dpc = "done" => Cardinality(disk) = result

\* C10: reading a message of a skipped topic changes nothing of the pass
\* (open files, start_time, message counter); start_time is the timestamp of
\* the first non-skipped message and progress is reported once per 1000
\* non-skipped messages, at the messages numbered 0, 1000, 2000, ...
C10_SkippedReadChangesNothing ==
  [][/\ (reads' = reads + 1 /\ last_topic' \in SKIP_TOPICS) =>
          UNCHANGED <<dpc, file_map, start_time, msg_count, result,
                      open_files, disk, out, progress, processed>>
     /\ progress' = (msg_count' + 999) \div 1000
     /\ processed' # <<>> =>
          /\ processed'[1].topic \notin SKIP_TOPICS
          /\ start_time' = processed'[1].time_sec]_vars

\* a bag that began with skipped messages, past its 1001st written message
C10_Witness ==
  /\ msg_count > 1000 /\ progress = 2
  /\ seen \cap SKIP_TOPICS # {}
  /\ reads > msg_count
  /\ start_time = BagTime(9)

(***************************************************************************)
(* Properties of the bag locator and of the orchestrator.                  *)
(***************************************************************************)
\* the directories that hold both markers
BagDirs == {d \in dirs : d \in meta /\ d \in db3}
\* the bags at or beneath root
BagsBeneath(root) == {p \in BagDirs : IsPrefix(root, p)}
\* the bags reached from root without passing through another bag
OutermostBags(root) ==
  {p \in BagsBeneath(root) :
     \A q \in Prefixes(p) \ {p} : IsPrefix(root, q) => q \notin BagDirs}

Returned == {rosbags[i] : i \in 1..Len(rosbags)}
CallBags == {calls[i].bag_path : i \in 1..Len(calls)}

\* C6: find_bags(root) returns, in lexicographic path order, exactly the
\* bags reachable from root without passing through another bag, and never
\* a path nested inside another returned path.
C6_FindReturnsOutermostBagsSorted ==
  found =>
    /\ Returned = OutermostBags(walk_root)
    /\ Len(rosbags) = Cardinality(Returned)
    /\ \A i, j \in 1..Len(rosbags) : i < j => PathLess(rosbags[i], rosbags[j])
    /\ \A i, j \in 1..Len(rosbags) : i # j => ~IsPrefix(rosbags[i], rosbags[j])

\* two bags are returned and a bag nested in a bag was left out
C6_Witness ==
  /\ found
  /\ Len(rosbags) >= 2
  /\ BagsBeneath(walk_root) \ Returned # {}

\* the calls all write below the csv root
CallsUnderCsv == \A i \in 1..Len(calls) : calls[i].output_path[1] = "csv"

\* C7 as stated: for an input path that is a directory, (1) a bag is dumped
\* once into itself; (2) else with an entry ros2bag only bags beneath it are
\* dumped, into csv, and the run fails with status 1 when there is none;
\* (3) else every bag beneath the path is dumped under csv; (4) else nothing
\* is dumped and the run fails with status 1.  Stated of the runs that no
\* raised error cut short.
C7_ModeByPriority ==
  (input_kind = "dir" /\ mpc = "exit") =>
    IF <<>> \in BagDirs
    THEN /\ mode = 1 /\ exit_status = 0
         /\ calls = <<[bag_path |-> <<>>, output_path |-> <<>>]>>
    ELSE IF Ros2bagDir \in dirs
    THEN /\ mode = 2
         /\ CallBags \subseteq BagsBeneath(Ros2bagDir)
         /\ CallsUnderCsv
         /\ BagsBeneath(Ros2bagDir) = {} => calls = <<>> /\ exit_status = 1
    ELSE IF BagsBeneath(<<>>) # {}
    THEN /\ mode = 3 /\ exit_status = 0
         /\ CallBags = BagsBeneath(<<>>)
         /\ CallsUnderCsv
    ELSE mode = 4 /\ calls = <<>> /\ exit_status = 1

\* C7 as amended: in (3), and in (2), the bags dumped are those find_bags
\* returns, the bags not nested inside another bag; an error raised while
\* making the csv root or by a dump ends the run there with status 1.
C7_ModeByPriorityOutermost ==
  (input_kind = "dir" /\ mpc \in {"exit", "raised"}) =>
    /\ exit_status = IF mpc = "exit" /\ mode \in {1, 3} THEN 0
                     ELSE IF mpc = "exit" /\ mode = 2 /\ calls # <<>> THEN 0
                     ELSE 1
    /\ IF <<>> \in BagDirs
       THEN /\ mode = 1
            /\ calls = <<[bag_path |-> <<>>, output_path |-> <<>>]>>
       ELSE IF Ros2bagDir \in dirs
       THEN /\ mode = 2
            /\ CallBags \subseteq OutermostBags(Ros2bagDir)
            /\ CallsUnderCsv
            /\ mpc = "exit" => CallBags = OutermostBags(Ros2bagDir)
            /\ BagsBeneath(Ros2bagDir) = {} => calls = <<>> /\ exit_status = 1
       ELSE IF BagsBeneath(<<>>) # {}
       THEN /\ mode = 3
            /\ CallBags \subseteq OutermostBags(<<>>)
            /\ CallsUnderCsv
            /\ mpc = "exit" => CallBags = OutermostBags(<<>>)
       ELSE mode = 4 /\ calls = <<>> /\ mpc = "exit"

\* a run over a tree without ros2bag that dumped two bags and left out a
\* bag nested inside one of them
C7_Witness ==
  /\ mpc = "exit" /\ mode = 3 /\ exit_status = 0
  /\ Len(calls) >= 2
  /\ BagsBeneath(<<>>) \ CallBags # {}

\* C8: in both tree modes the bag at bag_root/<rel> is dumped into
\* output_root/<rel>, whose directories are made; distinct bags never share
\* an output directory; the bags are dumped in find_bags's sorted order.
C8_OutputMirrorsRelativePath ==
  mode \in {2, 3} =>
    /\ Len(calls) <= Len(rosbags)
    /\ \A i \in 1..Len(calls) :
         /\ calls[i].bag_path = rosbags[i]
         /\ calls[i].output_path[1] = "csv"
         /\ calls[i].bag_path = walk_root \o Tail(calls[i].output_path)
         /\ (i < Len(calls) \/ mpc # "raised") =>
              Prefixes(calls[i].output_path) \subseteq dirs
    /\ \A i, j \in 1..Len(calls) :
         /\ i # j => calls[i].output_path # calls[j].output_path
         /\ i < j => PathLess(calls[i].bag_path, calls[j].bag_path)
    /\ (mpc = "exit" /\ exit_status = 0) => Len(calls) = Len(rosbags)

\* a run over a tree dumped two bags that lie two levels below the bag root
C8_Witness ==
  /\ mode \in {2, 3} /\ mpc = "exit" /\ exit_status = 0
  /\ Len(calls) >= 2
  /\ \A i \in 1..Len(calls) : Len(calls[i].output_path) >= 3

====
